---- MODULE Spec2Model ----
(***************************************************************************)
(* DealDine backend (dealdine-backend.js): the scan that turns promotional *)
(* emails into rows of the deals table, the mark-used request, and the     *)
(* expiry sweep checkAndNotifyExpiringDeals.  Every await of the handlers  *)
(* is a suspend point: an action is the completion of one awaited call     *)
(* together with the synchronous code that follows it up to the next       *)
(* await.                                                                  *)
(***************************************************************************)
EXTENDS Integers, Sequences, FiniteSets, TLC

\* ------------------------------------------------------------------ bounds
MaxSweeps == 2      \* invocations of checkAndNotifyExpiringDeals in flight at once
MaxScans == 1       \* POST /api/scan-deals requests in flight at once
MaxDeals == 2       \* rows the deals table can hold; a further insert errors
MaxTime == 1        \* days the clock can advance
MaxDepth == 2       \* levels of multipart nesting in a payload handed to getAllParts
MaxImgs == 2        \* elements of an HTML body handed to extractImagesFromEmail
MaxCandidates == 3  \* candidates in a list handed to selectBestDealImage
MaxRequests == 2    \* scan requests in flight at once in FetchSpec
MaxText == 6        \* characters of a response handed to parseEmailWithClaude

\* --------------------------------------------------------------- constants
HorizonDays == 3    \* threeDaysFromNow.setDate(getDate() + 3)

Users == {"u1", "u2"}
NoUser == "nobody"
NoDate == -1        \* expiry_date IS NULL
NoValue == "null"   \* the value of a text field that is null or not there
ExpiryDates == {NoDate, 2, 4}
PrefValues == {"true", "false", "absent"}

SweepIds == 1..MaxSweeps
ScanIds == 1..MaxScans

VARIABLES
  now,          \* the date, in days
  prefs,        \* users.notification_preferences.expiringSoon, per user
  deals,        \* the deals table: deals[i] is the row with id i
  sweep,        \* per sweep invocation: the locals of checkAndNotifyExpiringDeals
  scan,         \* per scan request: the locals of the /api/scan-deals handler
  credentials,  \* the credentials set on the module-scope oauth2Client
  deals0,       \* history: the deals table of the initial state
  call          \* a call of one of the pure functions: its argument and result

vars == << now, prefs, deals, sweep, scan, credentials, deals0, call >>

DealIds == DOMAIN deals

\* ------------------------------------------------------------ pure helpers
RECURSIVE Perms(_)
Perms(S) ==
  IF S = {} THEN { << >> }
  ELSE UNION { { << x >> \o p : p \in Perms(S \ {x}) } : x \in S }

PrefEnabledUnlessFalse(p) == p # "false"

\* !user.notification_preferences?.expiringSoon is false only for a true flag
PrefEnabled(p) == p = "true"

ExpiringRowLt(r, uid, horizon) ==
  /\ r.user = uid
  /\ r.active
  /\ ~r.notified
  /\ r.expiry < horizon
  /\ r.expiry # NoDate

ExpiringRowNotifiedToo(r, uid, horizon) ==
  /\ r.user = uid
  /\ r.active
  /\ r.expiry <= horizon
  /\ r.expiry # NoDate

\* The filter of the sweep's query, for one row.
ExpiringRow(r, uid, horizon) ==
  /\ r.user = uid
  /\ r.active
  /\ ~r.notified
  /\ r.expiry <= horizon
  /\ r.expiry # NoDate

\* The ids the sweep's query returns for a user.
ExpiringQuery(table, uid, horizon) ==
  { d \in DOMAIN table : ExpiringRow(table[d], uid, horizon) }

InsertRowSameKey(uid, emailId, draft) ==
  [ user |-> uid, email |-> "m0", restaurant |-> draft.restaurant,
    description |-> draft.dealDescription, expiry |-> draft.expiryDate,
    active |-> TRUE, notified |-> FALSE ]

\* The row saveDeal inserts; is_notified takes the schema default.
InsertRow(uid, emailId, draft) ==
  [ user |-> uid, email |-> emailId, restaurant |-> draft.restaurant,
    description |-> draft.dealDescription, expiry |-> draft.expiryDate,
    active |-> TRUE, notified |-> FALSE ]

NotNullOkRestaurantOnly(row) == row.restaurant # NoValue

\* restaurant TEXT NOT NULL, deal_description TEXT NOT NULL
NotNullOk(row) == row.restaurant # NoValue /\ row.description # NoValue

UsedRowResetsNotified(r) == [r EXCEPT !.active = FALSE, !.notified = FALSE]

\* update({ is_active: false })
UsedRow(r) == [r EXCEPT !.active = FALSE]

NotifiedRowUnwritten(r) == r

NotifiedRowReactivates(r) == [r EXCEPT !.notified = TRUE, !.active = TRUE]

\* update({ is_notified: true })
NotifiedRow(r) == [r EXCEPT !.notified = TRUE]

\* update(...).in('id', dealIds)
MarkNotified(table, ids) ==
  [ d \in DOMAIN table |-> IF d \in ids THEN NotifiedRow(table[d]) ELSE table[d] ]

\* The position of the next user the for loop does not skip, from position i on.
RECURSIVE NextEnabled(_, _, _)
NextEnabled(order, i, pf) ==
  IF i > Len(order) THEN i
  ELSE IF PrefEnabled(pf[order[i]]) THEN i
  ELSE NextEnabled(order, i + 1, pf)

\* checkAndNotifyExpiringDeals returns and POST /api/notifications/check,
\* awaiting it, answers success.
Returned(sw) == [sw EXCEPT !.pc = "done", !.status = 200]

\* The loop moves on: the query for the next user is issued, or the loop ends.
Advance(sw, pf) ==
  LET j == NextEnabled(sw.users, sw.idx + 1, pf) IN
  IF j > Len(sw.users) THEN Returned([sw EXCEPT !.idx = j, !.matched = {}])
  ELSE [sw EXCEPT !.idx = j, !.matched = {}, !.pc = "query"]

\* A throw inside the try block lands in the function's single catch, which
\* logs it; the function returns.
Caught(sw, what) == Returned([sw EXCEPT !.err = what])

\* sendMail resolved: the mail to the current user, naming the matched deals,
\* is out and the update marking them is issued.
Sent(sw) ==
  [sw EXCEPT !.sent = Append(@, [ to |-> sw.users[sw.idx], deals |-> sw.matched ]),
             !.pc = "update"]

SendFailedSwallowed(sw) == [sw EXCEPT !.pc = "update"]

\* The mail collaborator rejected: sendExpiringDealsNotification throws.
SendFailed(sw) == Caught(sw, "send")

UpdateFailedThrows(sw, pf) ==
  Caught([sw EXCEPT !.updErr = @ \cup {sw.users[sw.idx]}], "update")

\* The result of the awaited update is not inspected: an error is dropped.
UpdateFailed(sw, pf) ==
  Advance([sw EXCEPT !.updErr = @ \cup {sw.users[sw.idx]}], pf)

InFlight(s) == sweep[s].pc \notin {"idle", "done"}

\* ------------------------------------------------------------- MIME parts
\* A MessagePart: mimeType as << type, subtype >>, body.data as the text it
\* encodes (a sequence of document nodes, empty when the field is absent),
\* body.attachmentId ("" when absent), and a parts field on containers only.
Leaf(mt, data, att) ==
  [ mimeType |-> mt, body |-> [ data |-> data, attachmentId |-> att ] ]

Multipart(mt, ps) ==
  [ mimeType |-> mt, body |-> [ data |-> << >>, attachmentId |-> "" ], parts |-> ps ]

TextPlain == << "text", "plain" >>
TextHtml == << "text", "html" >>
ImagePng == << "image", "png" >>

\* A character of a text body.
Ch(c) == [ ch |-> c ]

\* An <img> element of an HTML body; an attribute that is absent is << >>.
Img(src, alt, width, height) ==
  [ tag |-> "img", src |-> src, alt |-> alt, width |-> width, height |-> height ]

\* getAllParts(payload, parts): a payload with a parts field passes the
\* accumulator through its children in order; any other payload is pushed.
RECURSIVE getAllParts(_, _)
RECURSIVE forEachPart(_, _, _)
forEachPart(children, i, parts) ==
  IF i > Len(children) THEN parts
  ELSE forEachPart(children, i + 1, getAllParts(children[i], parts))

getAllPartsEmitsContainers(payload, parts) ==
  IF "parts" \in DOMAIN payload
    THEN forEachPart(payload.parts, 1, Append(parts, payload))
    ELSE Append(parts, payload)

getAllParts(payload, parts) ==
  IF "parts" \in DOMAIN payload
    THEN forEachPart(payload.parts, 1, parts)
    ELSE Append(parts, payload)

\* The loop `if (part.mimeType === mt && part.body.data) content += data`.
RECURSIVE Content(_, _, _)
Content(parts, mt, i) ==
  IF i > Len(parts) THEN << >>
  ELSE (IF parts[i].mimeType = mt /\ parts[i].body.data # << >>
          THEN parts[i].body.data ELSE << >>) \o Content(parts, mt, i + 1)

EmailContentFirstOnly(email) ==
  LET parts == getAllParts(email.payload, << >>)
      plain == SelectSeq(parts, LAMBDA p : p.mimeType = TextPlain /\ p.body.data # << >>)
  IN IF plain = << >> THEN << >> ELSE plain[1].body.data

\* emailContent of the scan handler.
EmailContent(email) == Content(getAllParts(email.payload, << >>), TextPlain, 1)

\* ------------------------------------------------------------------ images
Digits == << "0", "1", "2", "3", "4", "5", "6", "7", "8", "9" >>
IsDigit(c) == \E k \in 1..10 : Digits[k] = c
DigitValue(c) == (CHOOSE k \in 1..10 : Digits[k] = c) - 1

\* The value of the digits of s from position i on, up to the first other
\* character.
RECURSIVE LeadingDigits(_, _, _)
LeadingDigits(s, i, acc) ==
  IF i > Len(s) \/ ~IsDigit(s[i]) THEN acc
  ELSE LeadingDigits(s, i + 1, 10 * acc + DigitValue(s[i]))

\* parseInt(attr): << n >>, or << >> for NaN (no leading digits, or an
\* absent attribute).
parseInt(s) ==
  IF s # << >> /\ IsDigit(s[1]) THEN << LeadingDigits(s, 1, 0) >>
  ELSE IF Len(s) >= 2 /\ s[1] = "-" /\ IsDigit(s[2]) THEN << 0 - LeadingDigits(s, 2, 0) >>
  ELSE << >>

\* parseInt(...) || 0
OrZero(v) == IF v = << >> THEN 0 ELSE v[1]

toLowerCase(s) ==
  [ i \in 1..Len(s) |->
      CASE s[i] = "L" -> "l" [] s[i] = "O" -> "o" [] s[i] = "G" -> "g"
        [] OTHER -> s[i] ]

includes(s, sub) ==
  \E i \in 0..(Len(s) - Len(sub)) : \A k \in 1..Len(sub) : s[i + k] = sub[k]

LogoWord == << "l", "o", "g", "o" >>
LogoBelow == 150

isLogoCaseSensitive(alt, width, height) ==
  includes(alt, LogoWord) \/ width < LogoBelow \/ height < LogoBelow

isLogo(alt, width, height) ==
  includes(toLowerCase(alt), LogoWord) \/ width < LogoBelow \/ height < LogoBelow

\* src.startsWith('http') ? src : `https:${src}`; a source is a sequence of
\* chunks, the scheme first when there is one.
Url(src) == IF src[1] \in {"http:", "https:"} THEN src ELSE << "https:" >> \o src

\* The body of $('img').each: an element without a source is left out.
RECURSIVE eachImg(_, _, _)
eachImg(html, i, images) ==
  IF i > Len(html) THEN images
  ELSE IF html[i].tag # "img" \/ html[i].src = << >> THEN eachImg(html, i + 1, images)
  ELSE LET alt == html[i].alt
           width == OrZero(parseInt(html[i].width))
           height == OrZero(parseInt(html[i].height))
           imageObj == [ url |-> Url(html[i].src), alt |-> alt,
                         width |-> width, height |-> height ]
       IN eachImg(html, i + 1,
                  IF isLogo(alt, width, height)
                    THEN [images EXCEPT !.logoImages = Append(@, imageObj)]
                    ELSE [images EXCEPT !.dealImages = Append(@, imageObj)])

\* The loop over the parts that appends the inline image attachments.
RECURSIVE inlineAttachments(_, _, _)
inlineAttachments(parts, i, images) ==
  IF i > Len(parts) THEN images
  ELSE inlineAttachments(parts, i + 1,
         IF parts[i].mimeType[1] = "image" /\ parts[i].body.attachmentId # ""
           THEN [images EXCEPT !.dealImages =
                   Append(@, [ attachmentId |-> parts[i].body.attachmentId,
                               mimeType |-> parts[i].mimeType ])]
           ELSE images)

NoImages == [ dealImages |-> << >>, logoImages |-> << >> ]

extractImagesFromEmail(emailData) ==
  LET parts == getAllParts(emailData.payload, << >>)
      htmlContent == Content(parts, TextHtml, 1)
  IN IF htmlContent = << >> THEN NoImages
     ELSE inlineAttachments(parts, 1, eachImg(htmlContent, 1, NoImages))

\* (a.width || 0) * (a.height || 0)
Size(a) ==
  (IF "width" \in DOMAIN a THEN a.width ELSE 0) * (IF "height" \in DOMAIN a THEN a.height ELSE 0)

\* Array.prototype.sort with the comparator bSize - aSize: stable, so an
\* element goes behind every element that is not smaller.
RECURSIVE insertSorted(_, _, _)
insertSorted(sorted, a, i) ==
  IF i > Len(sorted) THEN Append(sorted, a)
  ELSE IF Size(sorted[i]) < Size(a)
         THEN SubSeq(sorted, 1, i - 1) \o << a >> \o SubSeq(sorted, i, Len(sorted))
  ELSE insertSorted(sorted, a, i + 1)

RECURSIVE sortBySize(_, _, _)
sortBySize(list, i, sorted) ==
  IF i > Len(list) THEN sorted
  ELSE sortBySize(list, i + 1, insertSorted(sorted, list[i], 1))

\* What a url-valued expression yields when there is no url.
Null == << "null" >>
Undefined == << "undefined" >>

selectBestDealImageLastOfTies(images) ==
  IF images.dealImages = << >> THEN Null
  ELSE LET best == CHOOSE i \in 1..Len(images.dealImages) :
                     \A j \in 1..Len(images.dealImages) :
                       /\ Size(images.dealImages[j]) <= Size(images.dealImages[i])
                       /\ Size(images.dealImages[j]) = Size(images.dealImages[i]) => j <= i
           a == images.dealImages[best]
       IN IF "url" \in DOMAIN a THEN a.url ELSE Undefined

selectBestDealImage(images) ==
  IF images.dealImages = << >> THEN Null
  ELSE LET sorted == sortBySize(images.dealImages, 1, << >>)
       IN IF "url" \in DOMAIN sorted[1] THEN sorted[1].url ELSE Undefined

\* logos[restaurantName] || placeholder
getDefaultLogoUrl(restaurantName) ==
  IF restaurantName = "Subway" THEN << "https:", "//upload.wikimedia.org/Subway_2016_logo" >>
  ELSE << "https:", "//via.placeholder.com/200x200" >>

selectBestLogoImage(images, restaurantName) ==
  IF images.logoImages = << >> THEN getDefaultLogoUrl(restaurantName)
  ELSE images.logoImages[1].url

\* ------------------------------------------------------ parseEmailWithClaude
\* The text of a response is a sequence of characters: the braces, the comma,
\* "x" for any other character, and one character for each member
\* `"key": value` an object of the requested shape can hold.
Members ==
  { "restaurant:Subway", "restaurant:null", "dealDescription:BOGO",
    "dealDescription:null", "expiryDate:2", "expiryDate:4", "expiryDate:null" }

EmptyObject ==
  [ restaurant |-> NoValue, dealDescription |-> NoValue, expiryDate |-> NoDate ]

\* The object after the member is assigned; a repeated key takes the later value.
Assign(obj, m) ==
  CASE m = "restaurant:Subway" -> [obj EXCEPT !.restaurant = "Subway"]
    [] m = "restaurant:null" -> [obj EXCEPT !.restaurant = NoValue]
    [] m = "dealDescription:BOGO" -> [obj EXCEPT !.dealDescription = "BOGO"]
    [] m = "dealDescription:null" -> [obj EXCEPT !.dealDescription = NoValue]
    [] m = "expiryDate:2" -> [obj EXCEPT !.expiryDate = 2]
    [] m = "expiryDate:4" -> [obj EXCEPT !.expiryDate = 4]
    [] m = "expiryDate:null" -> [obj EXCEPT !.expiryDate = NoDate]

\* The members of the text between the braces: member (, member)*, or nothing.
RECURSIVE MemberList(_, _, _)
MemberList(t, i, obj) ==
  IF i > Len(t) \/ t[i] \notin Members THEN << >>
  ELSE IF i = Len(t) THEN << Assign(obj, t[i]) >>
  ELSE IF t[i + 1] = "," THEN MemberList(t, i + 2, Assign(obj, t[i]))
  ELSE << >>

\* JSON.parse of a text: << object >>, or << >> when it throws a SyntaxError.
JSONparse(t) ==
  IF Len(t) < 2 \/ t[1] # "{" \/ t[Len(t)] # "}" THEN << >>
  ELSE IF Len(t) = 2 THEN << EmptyObject >>
  ELSE MemberList(SubSeq(t, 2, Len(t) - 1), 1, EmptyObject)

Positions(t, c) == { i \in 1..Len(t) : t[i] = c }
Min(S) == CHOOSE i \in S : \A j \in S : i <= j
Max(S) == CHOOSE i \in S : \A j \in S : j <= i

\* responseText.match(/\{[\s\S]*\}/): << the span >> from the first "{" to the
\* last "}" behind it, or << >> for no match.
match(t) ==
  LET open == Positions(t, "{")
      close == IF open = {} THEN {} ELSE { j \in Positions(t, "}") : j > Min(open) }
  IN IF close = {} THEN << >> ELSE << SubSeq(t, Min(open), Max(close)) >>

\* A settled call of the extraction collaborator: rejected, or a response text.
Rejected == [ ok |-> FALSE, text |-> << >> ]
Response(t) == [ ok |-> TRUE, text |-> t ]

parseEmailWithClaudeWholeText(reply) ==
  IF ~reply.ok THEN << >> ELSE JSONparse(reply.text)

parseEmailWithClaudeKeepsUnparsable(reply) ==
  IF ~reply.ok THEN << >>
  ELSE LET jsonMatch == match(reply.text)
       IN IF jsonMatch = << >> THEN << >>
          ELSE IF JSONparse(jsonMatch[1]) = << >> THEN << EmptyObject >>
          ELSE JSONparse(jsonMatch[1])

\* parseEmailWithClaude: << dealInfo >>, or << >> for null; a rejection and a
\* SyntaxError are caught and give null.
parseEmailWithClaude(reply) ==
  IF ~reply.ok THEN << >>
  ELSE LET jsonMatch == match(reply.text)
       IN IF jsonMatch = << >> THEN << >> ELSE JSONparse(jsonMatch[1])

\* ----------------------------------------------------------------- mailbox
HeroImg == Img(<< "https:", "//cdn/hero.png" >>, << "B", "O", "G", "O" >>,
               << "6", "0", "0" >>, << "3", "0", "0" >>)
LogoImg == Img(<< "//cdn/brand.png" >>, << "L", "o", "g", "o" >>,
               << "2", "0", "0" >>, << "2", "0", "0" >>)

\* The promotional emails the provider returns for each account. m1 has a
\* text and an HTML alternative; m2 has two text leaves and an inline image
\* but no HTML; m3 is a single text part; m4 has HTML and a text leaf without
\* a body.
Messages ==
  [u \in Users |->
     IF u = "u1"
       THEN << [ id |-> "m1",
                 payload |-> Multipart(<< "multipart", "alternative" >>,
                               << Leaf(TextPlain, << Ch("a"), Ch("b") >>, ""),
                                  Leaf(TextHtml, << HeroImg, LogoImg >>, "") >>) ],
               [ id |-> "m2",
                 payload |-> Multipart(<< "multipart", "mixed" >>,
                               << Multipart(<< "multipart", "alternative" >>,
                                    << Leaf(TextPlain, << Ch("a") >>, ""),
                                       Leaf(TextPlain, << Ch("b") >>, "") >>),
                                  Leaf(ImagePng, << >>, "att1") >>) ] >>
       ELSE << [ id |-> "m3", payload |-> Leaf(TextPlain, << Ch("c") >>, "") ],
               [ id |-> "m4",
                 payload |-> Multipart(<< "multipart", "alternative" >>,
                               << Leaf(TextPlain, << >>, ""),
                                  Leaf(TextHtml, << HeroImg >>, "") >>) ] >>]

\* The ids of the messages of an account, in the order the provider lists them.
Mailbox == [u \in Users |-> [i \in DOMAIN Messages[u] |-> Messages[u][i].id]]

MessageIds == { Mailbox[u][i] : u \in Users, i \in 1..2 }

\* The message with an id, as messages.get returns it.
Message ==
  [ id \in MessageIds |->
      LET u == CHOOSE v \in Users : \E i \in DOMAIN Messages[v] : Messages[v][i].id = id
      IN Messages[u][CHOOSE i \in DOMAIN Messages[u] : Messages[u][i].id = id] ]

\* What the synchronous code of the scan computes from a message.
ContentOf == [ id \in MessageIds |-> EmailContent(Message[id]) ]
ImagesOf == [ id \in MessageIds |-> extractImagesFromEmail(Message[id]) ]

\* The deal image the scan selects for a message.
ImageUrlOf == [ id \in MessageIds |-> selectBestDealImage(ImagesOf[id]) ]

\* What the extraction collaborator answers in a scan: a rejected call, prose
\* only, a span that is no JSON, and objects in prose that hold or lack the
\* required fields.
InProse(members) == << "x", "{" >> \o members \o << "}", "x" >>

ScanReplies ==
  { Rejected,
    Response(<< "x", "x" >>),
    Response(<< "x", "{", "x", "}" >>),
    Response(InProse(<< "dealDescription:BOGO", ",", "expiryDate:2" >>)),
    Response(InProse(<< "restaurant:Subway", ",", "dealDescription:null" >>)) }
  \cup { Response(InProse(<< "restaurant:Subway", ",", "dealDescription:BOGO", ",", e >>)) :
           e \in { "expiryDate:2", "expiryDate:4", "expiryDate:null" } }

\* What parseEmailWithClaude returns for each of them.
DealInfoOf == [ reply \in ScanReplies |-> parseEmailWithClaude(reply) ]

\* -------------------------------------------------------------------- Init
IdleSweep ==
  [ pc |-> "idle", users |-> << >>, idx |-> 0, horizon |-> 0, matched |-> {},
    err |-> "none", status |-> 0,
    \* history of the invocation: the mails it sent, the users whose update
    \* failed, the date of the listing, whether another sweep was in flight then
    sent |-> << >>, updErr |-> {}, at |-> 0, overlap |-> FALSE ]

IdleScan ==
  [ pc |-> "idle", user |-> NoUser, emails |-> << >>, idx |-> 0,
    emailContent |-> << >>, dealData |-> << >>, processed |-> << >>,
    status |-> 0, dealsProcessed |-> 0,
    \* history of the request: how the email before the current one ended
    out |-> "none" ]

NoCall == [ fn |-> "none" ]

Init ==
  /\ now = 0
  /\ prefs \in [Users -> PrefValues]
  /\ deals = << >>
  /\ sweep = [ s \in SweepIds |-> IdleSweep ]
  /\ scan = [ c \in ScanIds |-> IdleScan ]
  /\ credentials = NoUser
  /\ deals0 = deals
  /\ call = NoCall

\* ------------------------------------------------------------------- clock
Tick ==
  /\ now < MaxTime
  /\ now' = now + 1
  /\ UNCHANGED << prefs, deals, sweep, scan, credentials, deals0, call >>

\* ------------------------------------------- checkAndNotifyExpiringDeals
\* The cron job or POST /api/notifications/check calls the function and the
\* listing of the users returns: an error is thrown, else the horizon is
\* computed and the loop runs to the first user it does not skip.
SweepListUsers(s) ==
  /\ sweep[s].pc = "idle"
  /\ \A t \in SweepIds : t < s => sweep[t].pc # "idle"
  /\ LET sw == [sweep[s] EXCEPT !.overlap = \E t \in SweepIds : InFlight(t)] IN
     \/ sweep' = [sweep EXCEPT ![s] = Caught(sw, "list")]
     \/ \E order \in Perms(Users) :
          sweep' = [sweep EXCEPT ![s] =
                      Advance([sw EXCEPT !.users = order, !.idx = 0, !.at = now,
                                         !.horizon = now + HorizonDays], prefs)]
  /\ UNCHANGED << now, prefs, deals, scan, credentials, deals0, call >>

\* The query for the current user returns: an error is thrown; an empty
\* result moves on to the next user; otherwise the mail is sent.
SweepQuery(s) ==
  /\ sweep[s].pc = "query"
  /\ \/ sweep' = [sweep EXCEPT ![s] = Caught(@, "query")]
     \/ LET sw == sweep[s]
            found == ExpiringQuery(deals, sw.users[sw.idx], sw.horizon)
        IN sweep' = [sweep EXCEPT ![s] =
                       IF found = {} THEN Advance(sw, prefs)
                       ELSE [sw EXCEPT !.matched = found, !.pc = "send"]]
  /\ UNCHANGED << now, prefs, deals, scan, credentials, deals0, call >>

\* sendMail settles: a rejection is thrown; otherwise the mail is out and the
\* update marking the matched deals is issued.
SweepSend(s) ==
  /\ sweep[s].pc = "send"
  /\ \/ sweep' = [sweep EXCEPT ![s] = SendFailed(@)]
     \/ sweep' = [sweep EXCEPT ![s] = Sent(@)]
  /\ UNCHANGED << now, prefs, deals, scan, credentials, deals0, call >>

\* The update settles, with or without an error, and the loop moves on.
SweepUpdate(s) ==
  /\ sweep[s].pc = "update"
  /\ \/ /\ deals' = MarkNotified(deals, sweep[s].matched)
        /\ sweep' = [sweep EXCEPT ![s] = Advance(@, prefs)]
     \/ /\ sweep' = [sweep EXCEPT ![s] = UpdateFailed(@, prefs)]
        /\ UNCHANGED deals
  /\ UNCHANGED << now, prefs, scan, credentials, deals0, call >>

\* The function has returned; its locals are gone.
SweepReturn(s) ==
  /\ sweep[s].pc = "done"
  /\ sweep' = [sweep EXCEPT ![s] = IdleSweep]
  /\ UNCHANGED << now, prefs, deals, scan, credentials, deals0, call >>

\* -------------------------------------------- POST /api/deals/:dealId/use
\* The update of the row settles; an error leaves the row as it was.
MarkDealAsUsed(d) ==
  /\ d \in DealIds
  /\ \/ deals' = [deals EXCEPT ![d] = UsedRow(@)]
     \/ UNCHANGED deals
  /\ UNCHANGED << now, prefs, sweep, scan, credentials, deals0, call >>

\* ------------------------------------------------- POST /api/scan-deals
\* The position of the next email the loop does not skip for want of
\* content, from position i on.
RECURSIVE NextPlain(_, _)
NextPlain(emails, i) ==
  IF i > Len(emails) THEN i
  ELSE IF ContentOf[emails[i]] # << >> THEN i
  ELSE NextPlain(emails, i + 1)

\* The for loop moves on: the extraction call for the next email that has
\* content is issued, or the loop ends and the handler answers success.
NextEmail(sc) ==
  LET j == NextPlain(sc.emails, sc.idx + 1) IN
  IF j > Len(sc.emails)
    THEN [sc EXCEPT !.idx = j, !.emailContent = << >>, !.dealData = << >>,
                    !.pc = "done", !.status = 200, !.dealsProcessed = Len(sc.processed)]
    ELSE [sc EXCEPT !.idx = j, !.emailContent = ContentOf[sc.emails[j]],
                    !.dealData = << >>, !.pc = "parse"]

\* The handler answers a request-level error.
Respond(sc, code) == [sc EXCEPT !.pc = "done", !.status = code]

\* A request for user u arrives and getUserByEmail settles: an error is
\* answered 500 and a missing user or missing tokens 401, with no user in
\* hand; otherwise the user's tokens are set on the shared client and the
\* fetch of the emails is issued.
ScanLookup(c, u) ==
  /\ scan[c].pc = "idle"
  /\ \A b \in ScanIds : b < c => scan[b].pc # "idle"
  /\ \/ /\ \E code \in {401, 500} :
             scan' = [scan EXCEPT ![c] = Respond(@, code)]
        /\ UNCHANGED credentials
     \/ /\ credentials' = u
        /\ scan' = [scan EXCEPT ![c].pc = "fetch", ![c].user = u]
  /\ UNCHANGED << now, prefs, deals, sweep, deals0, call >>

\* fetchPromotionalEmails settles: a throw is answered 500; otherwise the
\* messages of the account the shared client is authorised for are in hand.
\* The per-message calls go out through the shared client when the list call
\* has settled, and the provider has the listed messages only for the account
\* that listed them; the two settle points are separate steps in FetchSpec
\* below.
ScanFetch(c) ==
  /\ scan[c].pc = "fetch"
  /\ \/ scan' = [scan EXCEPT ![c] = Respond(@, 500)]
     \/ /\ credentials = scan[c].user
        /\ scan' = [scan EXCEPT ![c] = NextEmail([@ EXCEPT !.emails = Mailbox[credentials],
                                                           !.idx = 0])]
  /\ UNCHANGED << now, prefs, deals, sweep, credentials, deals0, call >>

\* The object handed to saveDeal for the current email.
DealData(sc, dealInfo) ==
  LET email == Message[sc.emails[sc.idx]]
      images == ImagesOf[email.id]
  IN [ emailId |-> email.id,
       restaurant |-> dealInfo.restaurant,
       dealDescription |-> dealInfo.dealDescription,
       expiryDate |-> dealInfo.expiryDate,
       imageUrl |-> ImageUrlOf[email.id],
       logoUrl |-> selectBestLogoImage(images, dealInfo.restaurant) ]

\* The locals after the extraction call for the current email has settled
\* with a reply and parseEmailWithClaude has returned: on null the loop moves
\* on; otherwise the images are selected and the insert is issued.
Parsed(sc, reply) ==
  LET dealInfo == DealInfoOf[reply] IN
  IF dealInfo = << >> THEN NextEmail([sc EXCEPT !.out = "null"])
  ELSE [sc EXCEPT !.dealData = << DealData(sc, dealInfo[1]) >>, !.out = "none", !.pc = "save"]

SaveFailedAborts(sc, why) == Respond([sc EXCEPT !.out = why], 500)

\* saveDeal throws: the catch inside the loop logs it and the loop moves on.
SaveFailed(sc, why) == NextEmail([sc EXCEPT !.out = why])

\* saveDeal returns the stored row: it is pushed on processedDeals and the
\* loop moves on.
Saved(sc, id) == NextEmail([sc EXCEPT !.processed = Append(@, id), !.out = "saved"])

\* The insert issued by scan c with locals sc settles: an error (a NOT NULL
\* column without a value, a full table, or any other failure) is thrown by
\* saveDeal; otherwise the row is stored.
InsertOutcomes(sc) ==
  LET row == InsertRow(sc.user, sc.dealData[1].emailId, sc.dealData[1]) IN
  { << SaveFailed(sc, IF NotNullOk(row) THEN "error" ELSE "refused"), deals >> }
  \cup (IF NotNullOk(row) /\ Len(deals) < MaxDeals
          THEN { << Saved(sc, Len(deals) + 1), Append(deals, row) >> }
          ELSE {})

InsertSettles(c, sc) ==
  \E o \in InsertOutcomes(sc) :
    /\ scan' = [scan EXCEPT ![c] = o[1]]
    /\ deals' = o[2]

\* The extraction call settles.
ScanParse(c) ==
  /\ scan[c].pc = "parse"
  /\ \E reply \in ScanReplies : scan' = [scan EXCEPT ![c] = Parsed(scan[c], reply)]
  /\ UNCHANGED << now, prefs, deals, sweep, credentials, deals0, call >>

\* The insert settles.
ScanSave(c) ==
  /\ scan[c].pc = "save"
  /\ InsertSettles(c, scan[c])
  /\ UNCHANGED << now, prefs, sweep, credentials, deals0, call >>

\* One iteration of the loop, from the extraction call to the end of the
\* iteration: ScanParse and, when an insert is issued, ScanSave. How the
\* iteration ended is history that only the separate steps keep.
ScanEmail(c) ==
  /\ scan[c].pc = "parse"
  /\ \E reply \in ScanReplies :
       LET sc == Parsed(scan[c], reply) IN
       \E o \in (IF sc.pc = "save" THEN InsertOutcomes(sc) ELSE { << sc, deals >> }) :
         /\ scan' = [scan EXCEPT ![c] = [o[1] EXCEPT !.out = "none"]]
         /\ deals' = o[2]
  /\ UNCHANGED << now, prefs, sweep, credentials, deals0, call >>

\* The response is out; the handler's locals are gone.
ScanEnd(c) ==
  /\ scan[c].pc = "done"
  /\ scan' = [scan EXCEPT ![c] = IdleScan]
  /\ UNCHANGED << now, prefs, deals, sweep, credentials, deals0, call >>

\* -------------------------------------------------------------------- Next
\* The callers of the sweep invoke it when the invocation before has
\* returned; overlapping invocations are the subject of SweepSpec below. An
\* iteration of the scan's loop is one step; its two suspend points are
\* separate steps in ScanSpec below.
Next ==
  \/ Tick
  \/ \E s \in SweepIds : (\A t \in SweepIds : sweep[t].pc = "idle") /\ SweepListUsers(s)
  \/ \E s \in SweepIds : SweepQuery(s)
  \/ \E s \in SweepIds : SweepSend(s)
  \/ \E s \in SweepIds : SweepUpdate(s)
  \/ \E s \in SweepIds : SweepReturn(s)
  \/ \E d \in DealIds : MarkDealAsUsed(d)
  \/ \E c \in ScanIds, u \in Users : ScanLookup(c, u)
  \/ \E c \in ScanIds : ScanFetch(c)
  \/ \E c \in ScanIds : ScanEmail(c)
  \/ \E c \in ScanIds : ScanEnd(c)

Spec == Init /\ [][Next]_vars

\* ------------------------------------------------------------ the scan alone
ScanNext ==
  \/ \E c \in ScanIds, u \in Users : ScanLookup(c, u)
  \/ \E c \in ScanIds : ScanFetch(c)
  \/ \E c \in ScanIds : ScanParse(c)
  \/ \E c \in ScanIds : ScanSave(c)
  \/ \E c \in ScanIds : ScanEnd(c)

ScanSpec == Init /\ [][ScanNext]_vars

\* ------------------------------------------------------- overlapping scans
\* Requests to /api/scan-deals and OAuth callbacks that overlap at their
\* suspend points, with the list call and the per-message calls of
\* fetchPromotionalEmails as separate steps. listAs and getAs are history:
\* the credentials set on the shared client when the calls went out.
RequestIds == 1..MaxRequests

IdleRequest ==
  [ pc |-> "idle", user |-> NoUser, emails |-> << >>, idx |-> 0,
    emailContent |-> << >>, dealData |-> << >>, processed |-> << >>,
    status |-> 0, dealsProcessed |-> 0, out |-> "none",
    listAs |-> NoUser, getAs |-> NoUser ]

RequestInit ==
  /\ now = 0
  /\ prefs = [u \in Users |-> "true"]
  /\ deals = << >>
  /\ sweep = [ s \in SweepIds |-> IdleSweep ]
  /\ scan = [ c \in RequestIds |-> IdleRequest ]
  /\ credentials = NoUser
  /\ deals0 = deals
  /\ call = NoCall

\* getUserByEmail settles for a request for user u: an error is answered 500
\* and a missing user or missing tokens 401; otherwise the user's tokens are
\* set on the shared client and, in the same turn, fetchPromotionalEmails
\* sends the list call.
RequestLookup(c, u) ==
  /\ scan[c].pc = "idle"
  /\ \A b \in RequestIds : b < c => scan[b].pc # "idle"
  /\ \/ /\ \E code \in {401, 500} : scan' = [scan EXCEPT ![c] = Respond(@, code)]
        /\ UNCHANGED credentials
     \/ /\ credentials' = u
        /\ scan' = [scan EXCEPT ![c].pc = "list", ![c].user = u, ![c].listAs = u]
  /\ UNCHANGED << now, prefs, deals, sweep, deals0, call >>

\* The list call settles: a rejection is thrown on and answered 500;
\* otherwise the ids of the account it was sent for are in hand and the
\* per-message calls go out, all in this turn, with the credentials the
\* shared client holds now.
RequestList(c) ==
  /\ scan[c].pc = "list"
  /\ \/ scan' = [scan EXCEPT ![c] = Respond(@, 500)]
     \/ scan' = [scan EXCEPT ![c].pc = "get", ![c].emails = Mailbox[scan[c].listAs],
                             ![c].getAs = credentials]
  /\ UNCHANGED << now, prefs, deals, sweep, credentials, deals0, call >>

\* The per-message calls settle: a rejection is thrown on and answered 500;
\* the messages are in hand only when the calls were sent for the account
\* the ids belong to, and the loop starts.
RequestGet(c) ==
  /\ scan[c].pc = "get"
  /\ \/ scan' = [scan EXCEPT ![c] = Respond(@, 500)]
     \/ /\ scan[c].getAs = scan[c].listAs
        /\ scan' = [scan EXCEPT ![c] = NextEmail([@ EXCEPT !.idx = 0])]
  /\ UNCHANGED << now, prefs, deals, sweep, credentials, deals0, call >>

\* The response is out; the handler's locals are gone.
RequestEnd(c) ==
  /\ scan[c].pc = "done"
  /\ scan' = [scan EXCEPT ![c] = IdleRequest]
  /\ UNCHANGED << now, prefs, deals, sweep, credentials, deals0, call >>

\* getToken settles in /auth/google/callback for the account w that has
\* granted access: its new tokens are set on the shared client.
OAuthCallback(w) ==
  /\ credentials # w
  /\ credentials' = w
  /\ UNCHANGED << now, prefs, deals, sweep, scan, deals0, call >>

FetchNext ==
  \/ \E c \in RequestIds, u \in Users : RequestLookup(c, u)
  \/ \E c \in RequestIds : RequestList(c)
  \/ \E c \in RequestIds : RequestGet(c)
  \/ \E c \in RequestIds : ScanParse(c)
  \/ \E c \in RequestIds : ScanSave(c)
  \/ \E c \in RequestIds : RequestEnd(c)
  \/ \E w \in Users : OAuthCallback(w)

FetchSpec == RequestInit /\ [][FetchNext]_vars

\* ------------------------------------------------ sweeps over a stored table
\* The rows earlier scans and sweeps can have left in the table.
StoredRows ==
  { [ user |-> u, email |-> Mailbox[u][1], restaurant |-> "Subway",
      description |-> "BOGO", expiry |-> e, active |-> TRUE, notified |-> n ] :
      u \in Users, e \in ExpiryDates, n \in BOOLEAN }

StoredTables == UNION { [1..n -> StoredRows] : n \in 0..MaxDeals }

SweepInit ==
  /\ now = 0
  /\ prefs \in [Users -> PrefValues]
  /\ deals \in StoredTables
  /\ sweep = [ s \in SweepIds |-> IdleSweep ]
  /\ scan = [ c \in ScanIds |-> IdleScan ]
  /\ credentials = NoUser
  /\ deals0 = deals
  /\ call = NoCall

\* Each invocation of the sweep runs once and keeps its final locals; the
\* clock advances and deals are marked used while the sweeps run.
SweepNext ==
  \/ Tick
  \/ \E s \in SweepIds : SweepListUsers(s)
  \/ \E s \in SweepIds : SweepQuery(s)
  \/ \E s \in SweepIds : SweepSend(s)
  \/ \E s \in SweepIds : SweepUpdate(s)
  \/ \E d \in DealIds : MarkDealAsUsed(d)

SweepSpec == SweepInit /\ [][SweepNext]_vars

\* ------------------------------------------------- sweeps one after another
\* The cron job invokes the sweep again and again, each invocation when the
\* one before has returned, over a stored table; the clock advances and
\* deals are marked used meanwhile.
Invoke(s) == (\A t \in SweepIds : sweep[t].pc = "idle") /\ SweepListUsers(s)

\* Every user has the preference enabled and no stored row is notified yet.
LiveInit ==
  /\ now = 0
  /\ prefs = [u \in Users |-> "true"]
  /\ deals \in { t \in StoredTables : \A d \in DOMAIN t : ~t[d].notified }
  /\ sweep = [ s \in SweepIds |-> IdleSweep ]
  /\ scan = [ c \in ScanIds |-> IdleScan ]
  /\ credentials = NoUser
  /\ deals0 = deals
  /\ call = NoCall

LiveNext ==
  \/ Tick
  \/ \E s \in SweepIds : Invoke(s)
  \/ \E s \in SweepIds : SweepQuery(s)
  \/ \E s \in SweepIds : SweepSend(s)
  \/ \E s \in SweepIds : SweepUpdate(s)
  \/ \E s \in SweepIds : SweepReturn(s)
  \/ \E d \in DealIds : MarkDealAsUsed(d)

\* The job keeps invoking the sweep, and every call the sweep awaits settles.
LiveSpec ==
  /\ LiveInit
  /\ [][LiveNext]_vars
  /\ \A s \in SweepIds :
       /\ WF_vars(Invoke(s))
       /\ WF_vars(SweepQuery(s))
       /\ WF_vars(SweepSend(s))
       /\ WF_vars(SweepUpdate(s))
       /\ WF_vars(SweepReturn(s))

\* ------------------------------------------------- the pure functions alone
\* The rest of the system while a pure function is called on its own.
Quiet ==
  /\ now = 0
  /\ prefs = [ u \in Users |-> "true" ]
  /\ deals = << >>
  /\ sweep = [ s \in SweepIds |-> IdleSweep ]
  /\ scan = [ c \in ScanIds |-> IdleScan ]
  /\ credentials = NoUser
  /\ deals0 = deals

\* The sequences over S of length from lo to hi.
SeqsOf(S, lo, hi) == UNION { [1..n -> S] : n \in lo..hi }

\* ---- getAllParts
PartLeaves ==
  { Leaf(TextPlain, << Ch("a") >>, ""), Leaf(TextPlain, << Ch("b") >>, ""),
    Leaf(ImagePng, << >>, "att1") }

\* The payloads with at most d levels of containers, each of one or two parts.
RECURSIVE Payloads(_)
Payloads(d) ==
  IF d = 0 THEN PartLeaves
  ELSE PartLeaves \cup { Multipart(<< "multipart", "mixed" >>, ps) :
                           ps \in SeqsOf(Payloads(d - 1), 1, 2) }

PartsInit ==
  /\ Quiet
  /\ call \in { [ fn |-> "getAllParts", payload |-> p, done |-> FALSE, parts |-> << >> ] :
                  p \in Payloads(MaxDepth) }

CallGetAllParts ==
  /\ call.fn = "getAllParts"
  /\ ~call.done
  /\ call' = [call EXCEPT !.done = TRUE, !.parts = getAllParts(call.payload, << >>)]
  /\ UNCHANGED << now, prefs, deals, sweep, scan, credentials, deals0 >>

PartsSpec == PartsInit /\ [][CallGetAllParts]_vars

\* ---- extractImagesFromEmail
Widths == { << >>, << "x" >>, << "1", "4", "9" >>, << "1", "5", "0" >> }
Heights == { << >>, << "1", "4", "9" >>, << "1", "5", "0" >> }
Alts == { << >>, << "L", "o", "g", "o" >>, << "h", "e", "r", "o" >> }
Srcs == { << >>, << "https:", "//cdn/a.png" >>, << "//cdn/b.png" >> }

ImgElements == { Img(src, alt, w, h) : src \in Srcs, alt \in Alts, w \in Widths, h \in Heights }

\* Leaves that are no HTML: text, an inline image with an attachment id, an
\* image without one, and an attachment that is no image.
OtherLeaves ==
  { Leaf(TextPlain, << Ch("a") >>, ""), Leaf(ImagePng, << >>, "att1"),
    Leaf(<< "image", "gif" >>, << >>, "att2"), Leaf(ImagePng, << Ch("b") >>, ""),
    Leaf(<< "application", "pdf" >>, << >>, "att3") }

\* Emails with one HTML leaf of up to MaxImgs elements, and emails whose HTML
\* is missing, empty or a single element, next to one or two other leaves.
EmailsWithImages ==
  { [ id |-> "m", payload |-> Multipart(<< "multipart", "alternative" >>,
                                << Leaf(TextPlain, << Ch("a") >>, ""), Leaf(TextHtml, html, "") >>) ] :
      html \in SeqsOf(ImgElements, 0, MaxImgs) }
  \cup
  { [ id |-> "m", payload |-> Multipart(<< "multipart", "mixed" >>, others \o html) ] :
      others \in SeqsOf(OtherLeaves, 1, 2),
      html \in { << >>, << Leaf(TextHtml, << >>, "") >>, << Leaf(TextHtml, << HeroImg >>, "") >> } }

ImagesInit ==
  /\ Quiet
  /\ call \in { [ fn |-> "extractImagesFromEmail", emailData |-> e, done |-> FALSE,
                  images |-> NoImages ] : e \in EmailsWithImages }

CallExtractImages ==
  /\ call.fn = "extractImagesFromEmail"
  /\ ~call.done
  /\ call' = [call EXCEPT !.done = TRUE, !.images = extractImagesFromEmail(call.emailData)]
  /\ UNCHANGED << now, prefs, deals, sweep, scan, credentials, deals0 >>

ImagesSpec == ImagesInit /\ [][CallExtractImages]_vars

\* ---- selectBestDealImage
Candidate(name, width, height) ==
  [ url |-> << "https:", name >>, alt |-> << >>, width |-> width, height |-> height ]

\* Candidates of different and of equal areas, and attachment-only ones.
Candidates ==
  { Candidate("//cdn/a.png", 200, 200), Candidate("//cdn/b.png", 200, 200),
    Candidate("//cdn/c.png", 400, 100), Candidate("//cdn/d.png", 300, 200),
    [ attachmentId |-> "att1", mimeType |-> ImagePng ],
    [ attachmentId |-> "att2", mimeType |-> ImagePng ] }

BestInit ==
  /\ Quiet
  /\ call \in { [ fn |-> "selectBestDealImage",
                  images |-> [ dealImages |-> l, logoImages |-> << >> ],
                  done |-> FALSE, url |-> Null ] :
                  l \in SeqsOf(Candidates, 0, MaxCandidates) }

CallSelectBestDealImage ==
  /\ call.fn = "selectBestDealImage"
  /\ ~call.done
  /\ call' = [call EXCEPT !.done = TRUE, !.url = selectBestDealImage(call.images)]
  /\ UNCHANGED << now, prefs, deals, sweep, scan, credentials, deals0 >>

BestSpec == BestInit /\ [][CallSelectBestDealImage]_vars

\* ---- parseEmailWithClaude
TextChars == { "{", "}", ",", "x", "restaurant:Subway", "expiryDate:2" }

Replies == { Rejected } \cup { Response(t) : t \in SeqsOf(TextChars, 0, MaxText) }

ParseInit ==
  /\ Quiet
  /\ call \in { [ fn |-> "parseEmailWithClaude", reply |-> r, done |-> FALSE,
                  dealInfo |-> << >> ] : r \in Replies }

CallParseEmailWithClaude ==
  /\ call.fn = "parseEmailWithClaude"
  /\ ~call.done
  /\ call' = [call EXCEPT !.done = TRUE, !.dealInfo = parseEmailWithClaude(call.reply)]
  /\ UNCHANGED << now, prefs, deals, sweep, scan, credentials, deals0 >>

ParseSpec == ParseInit /\ [][CallParseEmailWithClaude]_vars

\* ================================================================== claims
\* The mails sweep s has sent, and the mails naming deal d: (sweep, position).
MailsBy(s) == { << s, i >> : i \in 1..Len(sweep[s].sent) }
Mails == UNION { MailsBy(s) : s \in SweepIds }
Mail(m) == sweep[m[1]].sent[m[2]]
Naming(d) == { m \in Mails : d \in Mail(m).deals }
WasNotified(d) == d \in DOMAIN deals0 /\ deals0[d].notified
NoneUsed == \A d \in DOMAIN deals0 : deals[d].active = deals0[d].active
Clean(s) == sweep[s].pc = "done" /\ sweep[s].err = "none" /\ sweep[s].updErr = {}
CurrentUser(s) == sweep[s].users[sweep[s].idx]
Overlapped == \E s \in SweepIds : sweep[s].overlap
UpdateLost == \E s \in SweepIds : sweep[s].updErr # {}

\* C1: a deal the sweep has marked notified is named in a mail that was sent;
\* a sweep whose update is pending has sent the mail naming exactly the deals
\* it is about to mark; a sweep whose send failed has ended without sending
\* to that user.
C1_MarkedOnlyAfterSend ==
  /\ \A d \in DealIds : deals[d].notified /\ ~WasNotified(d) => Naming(d) # {}
  /\ \A s \in SweepIds :
       sweep[s].pc = "update" =>
         \E m \in MailsBy(s) : /\ Mail(m).to = CurrentUser(s)
                               /\ Mail(m).deals = sweep[s].matched
  /\ \A s \in SweepIds :
       sweep[s].err = "send" =>
         /\ sweep[s].pc = "done"
         /\ \A m \in MailsBy(s) : Mail(m).to # CurrentUser(s)

C1_Witness ==
  \E s \in SweepIds :
    /\ sweep[s].err = "send"
    /\ sweep[s].matched # {}
    /\ \A d \in sweep[s].matched : ~deals[d].notified
    /\ \E d \in DealIds : deals[d].notified /\ ~WasNotified(d) /\ Naming(d) \cap MailsBy(s) # {}

\* The deals of user u the sweep that listed the users on date `at` has to
\* notify, in a table.
Due(table, u, at) ==
  { d \in DOMAIN table : /\ table[d].user = u
                          /\ table[d].active = TRUE
                          /\ table[d].notified = FALSE
                          /\ table[d].expiry # NoDate
                          /\ table[d].expiry <= at + 3 }

\* A sweep ran alone over the initial table and every call succeeded.
Solo(s) ==
  /\ Clean(s)
  /\ \A t \in SweepIds \ {s} : sweep[t].pc = "idle"
  /\ NoneUsed

InSuccession(t) ==
  /\ t - 1 \in SweepIds
  /\ sweep[t].pc # "idle"
  /\ ~Overlapped
  /\ NoneUsed
  /\ sweep[t].horizon = sweep[t - 1].horizon

C4_DisabledNeverNotified ==
  /\ \A m \in Mails : prefs[Mail(m).to] = "true"
  /\ \A d \in DOMAIN deals0 :
       prefs[deals[d].user] # "true" => deals[d].notified = deals0[d].notified

C4_Witness ==
  \E s \in SweepIds, d \in DealIds :
    /\ Clean(s)
    /\ prefs[deals[d].user] \in {"false", "absent"}
    /\ d \in Due(deals, deals[d].user, sweep[s].at)
    /\ MailsBy(s) # {}

\* C5, as stated: a sweep that failed on one user has gone on to every later
\* user it does not skip.
C5_SweepContinues ==
  \A s \in SweepIds :
    sweep[s].pc = "done" /\ sweep[s].err \in {"query", "send"} =>
      \A j \in (sweep[s].idx + 1)..Len(sweep[s].users) :
        prefs[sweep[s].users[j]] # "true"

\* The step in which the update of sweep s settles with an error.
UpdateErrorStep(s) ==
  sweep[s].pc = "update" /\ sweep'[s].updErr # sweep[s].updErr

\* The loop of sweep s has moved from position i to the next user it does not
\* skip, or has ended normally.
MovedOn(s, i) ==
  LET sw == sweep'[s] IN
  /\ sw.err = "none"
  /\ sw.idx > i
  /\ \A j \in (i + 1)..(sw.idx - 1) : prefs[sw.users[j]] # "true"
  /\ IF sw.idx <= Len(sw.users)
       THEN sw.pc = "query" /\ prefs[sw.users[sw.idx]] = "true"
       ELSE sw.pc = "done"

\* C6: a failed update leaves the table as it was and the sweep moves on to
\* the next user; the sweep that runs after it, when its calls succeed, sends
\* the user a mail naming those deals again.
C6_FailedUpdateResends ==
  /\ [][\A s \in SweepIds :
         UpdateErrorStep(s) => deals' = deals /\ MovedOn(s, sweep[s].idx)]_vars
  /\ [](\A t \in SweepIds :
         InSuccession(t) /\ Clean(t) =>
           \A m \in MailsBy(t - 1) :
             Mail(m).to \in sweep[t - 1].updErr =>
               \E n \in MailsBy(t) : /\ Mail(n).to = Mail(m).to
                                      /\ Mail(m).deals \subseteq Mail(n).deals)

C6_Witness ==
  \E t \in SweepIds :
    /\ InSuccession(t)
    /\ Clean(t)
    /\ sweep[t - 1].updErr # {}
    /\ sweep[t - 1].idx > Len(sweep[t - 1].users)
    /\ \E m \in MailsBy(t - 1), n \in MailsBy(t) : Mail(m).deals \cap Mail(n).deals # {}

\* C7: when no sweep was invoked while another was in flight and no update
\* failed, no deal is named in two mails.
C7_AtMostOnceWithoutOverlap ==
  ~Overlapped /\ ~UpdateLost => \A d \in DealIds : Cardinality(Naming(d)) <= 1

\* Two overlapping sweeps, every update succeeding, have both named a deal.
C7_Witness ==
  /\ Overlapped
  /\ ~UpdateLost
  /\ \E d \in DealIds : Cardinality(Naming(d)) >= 2

\* C8: no step takes a deal's notified flag from true back to false.
C8_NotifiedNeverReset ==
  [][\A d \in DOMAIN deals :
       deals[d].notified => d \in DOMAIN deals' /\ deals'[d].notified]_vars

\* A notified deal was marked used and its email was scanned again.
C8_Witness ==
  \E d, e \in DealIds :
    /\ d < e
    /\ deals[d].notified
    /\ ~deals[d].active
    /\ deals[e].user = deals[d].user
    /\ deals[e].email = deals[d].email

\* C9: no step takes a deal's active flag from false back to true.
C9_ActiveNeverRestored ==
  [][\A d \in DOMAIN deals :
       ~deals[d].active => d \in DOMAIN deals' /\ ~deals'[d].active]_vars

\* A deal was marked used while the update marking it notified is pending.
C9_Witness ==
  \E s \in SweepIds :
    /\ sweep[s].pc = "update"
    /\ \E d \in sweep[s].matched : ~deals[d].active

\* C10, as stated: no two deals of a user carry the same email id.
C10_OneDealPerEmail ==
  \A d, e \in DealIds :
    d # e /\ deals[d].user = deals[e].user => deals[d].email # deals[e].email

\* C10, amended: the deals one scan has inserted belong to the user of the
\* request and carry the ids of emails it fetched, each id once.
C10_OneDealPerEmailPerScan ==
  \A c \in ScanIds :
    LET done == scan[c].processed IN
    /\ \A i \in 1..Len(done) :
         /\ done[i] \in DealIds
         /\ deals[done[i]].user = scan[c].user
         /\ \E k \in 1..Len(scan[c].emails) : scan[c].emails[k] = deals[done[i]].email
    /\ \A i, j \in 1..Len(done) :
         i # j => done[i] # done[j] /\ deals[done[i]].email # deals[done[j]].email

C10_Witness ==
  \E c \in ScanIds :
    /\ scan[c].pc = "done"
    /\ scan[c].status = 200
    /\ Len(scan[c].processed) = 2

\* ------------------------------------------------------------ scan claims
\* The node of a payload at a path, a path being the positions of the
\* children taken from the root.
RECURSIVE NodeAt(_, _)
NodeAt(t, path) ==
  IF path = << >> THEN t ELSE NodeAt(t.parts[Head(path)], Tail(path))

\* The paths to the nodes of a payload that have no parts.
RECURSIVE LeafPaths(_)
LeafPaths(t) ==
  IF "parts" \in DOMAIN t
    THEN UNION { { << i >> \o p : p \in LeafPaths(t.parts[i]) } : i \in DOMAIN t.parts }
    ELSE { << >> }

\* Path p is left of path q.
Before(p, q) ==
  \E k \in 1..Len(p) :
    /\ k <= Len(q)
    /\ p[k] < q[k]
    /\ \A j \in 1..(k - 1) : p[j] = q[j]

\* The position of the leaf at path p among the leaves of t, from the left.
Rank(t, p) == 1 + Cardinality({ q \in LeafPaths(t) : Before(q, p) })

\* The leaves of t from left to right.
LeavesInOrder(t) ==
  [ k \in 1..Cardinality(LeafPaths(t)) |->
      NodeAt(t, CHOOSE p \in LeafPaths(t) : Rank(t, p) = k) ]

\* The message has a text/plain leaf with a body.
HasPlainText(id) ==
  \E p \in LeafPaths(Message[id].payload) :
    LET leaf == NodeAt(Message[id].payload, p) IN
    leaf.mimeType = << "text", "plain" >> /\ leaf.body.data # << >>

\* The position of the first email behind position i that has plain text;
\* one past the end when there is none.
NextWithPlain(emails, i) ==
  LET later == { k \in (i + 1)..Len(emails) : HasPlainText(emails[k]) } IN
  IF later = {} THEN Len(emails) + 1 ELSE CHOOSE k \in later : \A j \in later : k <= j

\* A step of scan c inside its loop.
ScanStep(c) == scan[c].pc \in {"parse", "save"} /\ scan'[c] # scan[c]

\* Scan c has moved from the current email to the next one with plain text,
\* or has answered success after the last.
NextEmailOrSuccess(c) ==
  LET k == NextWithPlain(scan[c].emails, scan[c].idx) IN
  /\ scan'[c].idx = k
  /\ scan'[c].user = scan[c].user
  /\ scan'[c].emails = scan[c].emails
  /\ IF k <= Len(scan[c].emails) THEN scan'[c].pc = "parse"
     ELSE /\ scan'[c].pc = "done"
          /\ scan'[c].status = 200
          /\ scan'[c].dealsProcessed = Len(scan'[c].processed)

\* C11: every step of the loop either issues the insert for the current
\* email or ends the iteration by moving to the next email or answering
\* success; an iteration that ended in a failure has changed neither the
\* table nor processedDeals; processedDeals grows in a step by exactly the
\* rows the step stores. A scan that answered success has visited every
\* email and reports the length of processedDeals.
C11_FailureSkipsOneEmail ==
  /\ [][\A c \in ScanIds :
          ScanStep(c) =>
            /\ Len(scan'[c].processed) - Len(scan[c].processed) = Len(deals') - Len(deals)
            /\ \/ /\ scan[c].pc = "parse"
                  /\ scan'[c].pc = "save"
                  /\ scan'[c].idx = scan[c].idx
                  /\ deals' = deals
               \/ NextEmailOrSuccess(c)
            /\ scan'[c].out \in {"null", "error", "refused"} =>
                 deals' = deals /\ scan'[c].processed = scan[c].processed
            /\ scan'[c].out = "saved" =>
                 /\ Len(deals') = Len(deals) + 1
                 /\ deals'[Len(deals')].email = scan[c].emails[scan[c].idx]
                 /\ scan'[c].processed = Append(scan[c].processed, Len(deals'))]_vars
  /\ [](\A c \in ScanIds :
          scan[c].status = 200 =>
            /\ scan[c].pc = "done"
            /\ scan[c].idx = Len(scan[c].emails) + 1
            /\ scan[c].dealsProcessed = Len(scan[c].processed)
            /\ \A i \in 1..Len(scan[c].processed) : scan[c].processed[i] \in DealIds)

\* A scan of two emails with plain text answered success with one deal, the
\* deal of the second email: the first email failed and only it was skipped.
C11_Witness ==
  \E c \in ScanIds :
    /\ scan[c].status = 200
    /\ Len(scan[c].emails) = 2
    /\ \A k \in 1..2 : HasPlainText(scan[c].emails[k])
    /\ scan[c].dealsProcessed = 1
    /\ deals[scan[c].processed[1]].email = scan[c].emails[2]

\* C12, as stated: a scan that failed before its loop and a sweep whose
\* listing of the users failed have not answered success.
C12_PreBatchFailureSurfaced ==
  /\ \A c \in ScanIds :
       scan[c].pc = "done" /\ scan[c].idx = 0 => scan[c].status \in {401, 500}
  /\ \A s \in SweepIds :
       sweep[s].pc = "done" /\ sweep[s].err = "list" => sweep[s].status # 200

\* The draft handed to saveDeal by scan c lacks the restaurant or the
\* description.
DraftLacksField(c) ==
  \/ scan[c].dealData[1].restaurant = NoValue
  \/ scan[c].dealData[1].dealDescription = NoValue

\* C13: every row of the table has a restaurant and a description; the
\* insert of a draft that lacks one stores nothing, pushes nothing on
\* processedDeals, and the loop moves to the next email.
C13_DraftLackingFieldDiscarded ==
  /\ [](\A d \in DealIds :
          deals[d].restaurant # NoValue /\ deals[d].description # NoValue)
  /\ [][\A c \in ScanIds :
          scan[c].pc = "save" /\ scan'[c] # scan[c] /\ DraftLacksField(c) =>
            /\ deals' = deals
            /\ scan'[c].processed = scan[c].processed
            /\ NextEmailOrSuccess(c)]_vars

\* The insert of the first email's draft was refused for a missing field:
\* the table is empty and the extraction call for the second email is out.
C13_Witness ==
  \E c \in ScanIds :
    /\ scan[c].out = "refused"
    /\ scan[c].pc = "parse"
    /\ scan[c].idx = 2
    /\ scan[c].processed = << >>
    /\ deals = << >>

\* --------------------------------------------------- pure function claims
\* C14: getAllParts returns the nodes without parts, from left to right,
\* each once, and no node that has parts, whatever the depth of the payload.
C14_GetAllPartsYieldsLeavesInOrder ==
  call.fn = "getAllParts" /\ call.done =>
    /\ Len(call.parts) = Cardinality(LeafPaths(call.payload))
    /\ call.parts = LeavesInOrder(call.payload)
    /\ \A k \in 1..Len(call.parts) : "parts" \notin DOMAIN call.parts[k]

\* A payload with a container inside a container and leaves at both levels
\* has been flattened to three leaves, the first different from the last.
C14_Witness ==
  /\ call.fn = "getAllParts"
  /\ call.done
  /\ "parts" \in DOMAIN call.payload
  /\ Len(call.payload.parts) = 2
  /\ "parts" \in DOMAIN call.payload.parts[1]
  /\ "parts" \notin DOMAIN call.payload.parts[2]
  /\ Len(call.parts) = 3
  /\ call.parts[1] # call.parts[2]
  /\ call.parts[3] = call.payload.parts[2]

\* The image elements of the HTML leaf of an email, in document order.
HtmlOf(email) ==
  LET leaves == LeavesInOrder(email.payload)
      hs == { k \in DOMAIN leaves : leaves[k].mimeType = TextHtml }
  IN IF hs = {} THEN << >> ELSE leaves[CHOOSE k \in hs : TRUE].body.data

\* The number an attribute stands for: 0 when absent or no number.
Numeric(attr) ==
  CASE attr = << "1", "4", "9" >> -> 149
    [] attr = << "1", "5", "0" >> -> 150
    [] attr = << "2", "0", "0" >> -> 200
    [] attr = << "3", "0", "0" >> -> 300
    [] attr = << "6", "0", "0" >> -> 600
    [] OTHER -> 0

\* The alt text contains "logo" in any mix of cases.
SaysLogo(alt) ==
  \E i \in 1..(Len(alt) - 3) :
    /\ alt[i] \in {"l", "L"}
    /\ alt[i + 1] \in {"o", "O"}
    /\ alt[i + 2] \in {"g", "G"}
    /\ alt[i + 3] \in {"o", "O"}

LogoElement(el) == SaysLogo(el.alt) \/ Numeric(el.width) < 150 \/ Numeric(el.height) < 150

\* The candidates of a list are the elements of els, one for one and in the
\* same order.
SameImages(list, els) ==
  /\ Len(list) = Len(els)
  /\ \A k \in 1..Len(els) :
       /\ list[k].alt = els[k].alt
       /\ list[k].width = Numeric(els[k].width)
       /\ list[k].height = Numeric(els[k].height)
       /\ list[k].url[Len(list[k].url)] = els[k].src[Len(els[k].src)]

FromHtml(list) == SelectSeq(list, LAMBDA a : "url" \in DOMAIN a)

\* The two lists hold the elements of els, the logos in logoImages and the
\* others in dealImages, in document order.
Classified(images, els) ==
  /\ SameImages(FromHtml(images.logoImages), SelectSeq(els, LogoElement))
  /\ SameImages(FromHtml(images.dealImages), SelectSeq(els, LAMBDA el : ~LogoElement(el)))

\* C15 (as stated): every image element of the HTML body is in exactly one
\* of the two lists, logoImages if its alt text contains "logo" in any case
\* or its width or height is below 150 (absent or unparsable counting as 0),
\* dealImages otherwise, each list in document order.
C15_EveryImageElementClassified ==
  call.fn = "extractImagesFromEmail" /\ call.done =>
    Classified(call.images, HtmlOf(call.emailData))

\* C15 (amended): every image element that has a source is in exactly one of
\* the two lists, classified as above and in document order; an element
\* without a source is in neither list.
C15_ImageElementsWithSourceClassified ==
  call.fn = "extractImagesFromEmail" /\ call.done =>
    Classified(call.images,
               SelectSeq(HtmlOf(call.emailData), LAMBDA el : el.src # << >>))

\* A large image whose alt text says "Logo" went to logoImages and the large
\* image after it to dealImages.
C15_Witness ==
  /\ call.fn = "extractImagesFromEmail"
  /\ call.done
  /\ Len(HtmlOf(call.emailData)) = 2
  /\ Len(call.images.logoImages) = 1
  /\ call.images.logoImages[1].alt = << "L", "o", "g", "o" >>
  /\ call.images.logoImages[1].width = 150
  /\ call.images.logoImages[1].height = 150
  /\ Len(call.images.dealImages) = 1
  /\ call.images.dealImages[1].alt = << "h", "e", "r", "o" >>

\* The inline image attachments of an email: the leaves whose mime type
\* starts with image/ and that carry an attachment id, in traversal order.
InlineImages(email) ==
  LET leaves == LeavesInOrder(email.payload)
      n == Len(leaves)
  IN SelectSeq([ k \in 1..n |-> leaves[k] ],
               LAMBDA p : p.mimeType[1] = "image" /\ p.body.attachmentId # "")

\* C17: every inline image attachment of the email is in dealImages as an
\* attachment-only candidate, whether or not the email has an HTML body.
C17_InlineAttachmentsAppended ==
  call.fn = "extractImagesFromEmail" /\ call.done =>
    LET atts == InlineImages(call.emailData)
        only == SelectSeq(call.images.dealImages, LAMBDA a : "url" \notin DOMAIN a)
    IN /\ Len(only) = Len(atts)
       /\ \A k \in 1..Len(atts) :
            /\ only[k].attachmentId = atts[k].body.attachmentId
            /\ only[k].mimeType = atts[k].mimeType

\* width * height of a candidate, a missing dimension counting as 0.
Area(a) == IF "width" \in DOMAIN a /\ "height" \in DOMAIN a THEN a.width * a.height ELSE 0

\* What selecting candidate a returns: its url, which an attachment-only
\* candidate does not have.
Selected(a) == IF "url" \in DOMAIN a THEN a.url ELSE Undefined

\* C16: selectBestDealImage returns none for an empty dealImages and
\* otherwise selects the first candidate among those of the largest
\* width * height, missing dimensions counting as 0; a candidate that alone
\* has the largest area is selected wherever it stands in the list.
C16_LargestAreaFirstOfTies ==
  call.fn = "selectBestDealImage" /\ call.done =>
    LET l == call.images.dealImages
    IN /\ l = << >> => call.url = Null
       /\ \A i \in 1..Len(l) :
            /\ (\A j \in 1..Len(l) : Area(l[j]) <= Area(l[i]))
            /\ (\A j \in 1..(i - 1) : Area(l[j]) < Area(l[i]))
            => call.url = Selected(l[i])
       /\ \A i \in 1..Len(l) :
            (\A j \in 1..Len(l) : j # i => Area(l[j]) < Area(l[i]))
            => call.url = Selected(l[i])

\* Two different candidates of the same largest area stood behind a smaller
\* one, and the first of the two was selected.
C16_Witness ==
  /\ call.fn = "selectBestDealImage"
  /\ call.done
  /\ Len(call.images.dealImages) = 3
  /\ Area(call.images.dealImages[1]) < Area(call.images.dealImages[2])
  /\ Area(call.images.dealImages[2]) = Area(call.images.dealImages[3])
  /\ call.images.dealImages[2] # call.images.dealImages[3]
  /\ call.url = call.images.dealImages[2].url

\* The text from i to j is a well-formed JSON object with no brace inside.
ObjectAt(t, i, j) ==
  /\ i < j
  /\ t[i] = "{"
  /\ t[j] = "}"
  /\ \A k \in (i + 1)..(j - 1) : t[k] \notin {"{", "}"}
  /\ JSONparse(SubSeq(t, i, j)) # << >>

\* The text is prose, one well-formed JSON object from i to j, and prose.
SingleObjectAt(t, i, j) ==
  /\ ObjectAt(t, i, j)
  /\ \A k \in 1..Len(t), l \in 1..Len(t) : ObjectAt(t, k, l) => k = i /\ l = j

\* C18 (as stated): for a response of prose, a single well-formed JSON
\* object and prose, the draft returned equals the parse of the object
\* alone, whatever the prose.
C18_DraftIsEmbeddedObject ==
  call.fn = "parseEmailWithClaude" /\ call.done /\ call.reply.ok =>
    LET t == call.reply.text
    IN \A i \in 1..Len(t), j \in 1..Len(t) :
         SingleObjectAt(t, i, j) => call.dealInfo = JSONparse(SubSeq(t, i, j))

\* C18 (amended): the same, when the prose before the object has no "{" and
\* the prose after it has no "}".
C18_DraftIsEmbeddedObjectBraceFreeProse ==
  call.fn = "parseEmailWithClaude" /\ call.done /\ call.reply.ok =>
    LET t == call.reply.text
    IN \A i \in 1..Len(t), j \in 1..Len(t) :
         /\ SingleObjectAt(t, i, j)
         /\ \A k \in 1..(i - 1) : t[k] # "{"
         /\ \A k \in (j + 1)..Len(t) : t[k] # "}"
         => call.dealInfo = JSONparse(SubSeq(t, i, j))

\* An object naming the restaurant, between prose on both sides, gave the
\* draft with that restaurant.
C18_Witness ==
  /\ call.fn = "parseEmailWithClaude"
  /\ call.done
  /\ call.reply.ok
  /\ Len(call.reply.text) = 5
  /\ call.reply.text[1] = "x"
  /\ SingleObjectAt(call.reply.text, 2, Len(call.reply.text) - 1)
  /\ call.reply.text[Len(call.reply.text)] = "x"
  /\ call.dealInfo # << >>
  /\ call.dealInfo[1].restaurant = "Subway"

\* The reply gives no draft: the call was rejected, or the response has no
\* "{" with a "}" behind it, or the text from the first "{" to the last "}"
\* is no JSON.
YieldsNone(r) ==
  \/ ~r.ok
  \/ LET t == r.text
         opens == { i \in 1..Len(t) : t[i] = "{" }
         closes == { j \in 1..Len(t) : t[j] = "}" /\ \E i \in opens : i < j }
     IN \/ closes = {}
        \/ JSONparse(SubSeq(t, CHOOSE i \in opens : \A k \in opens : i <= k,
                               CHOOSE j \in closes : \A k \in closes : k <= j)) = << >>

\* C19: when the extraction call of a scan settles with a reply that gives
\* no draft, parseEmailWithClaude returns null and the scan leaves the email
\* out: no insert is issued, no image is selected, the table and
\* processedDeals are unchanged, and the loop is at the next email or has
\* answered success.
C19_NoDraftExcludesEmail ==
  [][\A c \in ScanIds, r \in ScanReplies :
       /\ scan[c].pc = "parse"
       /\ YieldsNone(r)
       /\ scan'[c] = Parsed(scan[c], r)
       => /\ scan'[c].out = "null"
          /\ scan'[c].pc # "save"
          /\ scan'[c].dealData = << >>
          /\ scan'[c].processed = scan[c].processed
          /\ deals' = deals
          /\ NextEmailOrSuccess(c)]_vars

\* The first email of a scan gave no draft: nothing is stored and the
\* extraction call for the second email is out.
C19_Witness ==
  \E c \in ScanIds :
    /\ scan[c].out = "null"
    /\ scan[c].pc = "parse"
    /\ scan[c].idx = 2
    /\ scan[c].dealData = << >>
    /\ scan[c].processed = << >>
    /\ deals = << >>

\* The bodies of the text/plain leaves from position k on, one after another.
RECURSIVE PlainFrom(_, _)
PlainFrom(leaves, k) ==
  IF k > Len(leaves) THEN << >>
  ELSE (IF leaves[k].mimeType = << "text", "plain" >> THEN leaves[k].body.data ELSE << >>)
         \o PlainFrom(leaves, k + 1)

PlainText(id) == PlainFrom(LeavesInOrder(Message[id].payload), 1)

\* C20: the content handed to the extraction call is the concatenation of
\* the bodies of the text/plain leaves of the email in traversal order and
\* is not empty; the loop goes from the fetch and from each email to the
\* next email that has a text/plain leaf with a body, so an email without
\* one gets no extraction call and no row, whereas an email with plain text
\* and no HTML body is extracted and, when the insert succeeds, stored.
C20_PlainTextDecidesExtraction ==
  /\ [](\A c \in ScanIds :
          scan[c].pc \in {"parse", "save"} =>
            /\ scan[c].idx \in 1..Len(scan[c].emails)
            /\ HasPlainText(scan[c].emails[scan[c].idx])
            /\ scan[c].emailContent = PlainText(scan[c].emails[scan[c].idx])
            /\ scan[c].emailContent # << >>)
  /\ [](\A i \in 1..Len(deals) : HasPlainText(deals[i].email))
  /\ [][\A c \in ScanIds :
          /\ scan[c].pc = "fetch" /\ scan'[c].pc = "parse"
               => scan'[c].idx = NextWithPlain(scan'[c].emails, 0)
          /\ scan[c].pc = "fetch" /\ scan'[c].status = 200
               => NextWithPlain(scan'[c].emails, 0) > Len(scan'[c].emails)
          /\ ScanStep(c) /\ scan'[c].idx # scan[c].idx => NextEmailOrSuccess(c)
          /\ scan[c].pc = "save" /\ scan'[c].out = "saved"
               => deals' = Append(deals, deals'[Len(deals')])
                  /\ deals'[Len(deals')].email = scan[c].emails[scan[c].idx]]_vars

\* The email whose plain text is in two leaves and that has no HTML body has
\* been extracted from both leaves and stored.
C20_Witness ==
  \E c \in ScanIds, i \in 1..Len(deals) :
    /\ scan[c].out = "saved"
    /\ scan[c].processed # << >>
    /\ scan[c].processed[Len(scan[c].processed)] = i
    /\ HtmlOf(Message[deals[i].email]) = << >>
    /\ Len(PlainText(deals[i].email)) = 2
    /\ PlainText(deals[i].email)[1] # PlainText(deals[i].email)[2]

\* ------------------------------------------------------- behaviour claims
\* The emails of the rows stored for a user are emails of the user's account.
OwnEmailsStored ==
  \A i \in 1..Len(deals) :
    \E k \in DOMAIN Mailbox[deals[i].user] : Mailbox[deals[i].user][k] = deals[i].email

\* C21: while scan requests and OAuth callbacks overlap, the list call and
\* the per-message calls of a request for user U go out with U's credentials
\* set on the shared client, the emails a request works on are U's, and
\* every row stored for U is of an email of U's account.
C21_OwnCredentialsAtFetch ==
  /\ \A c \in RequestIds :
       /\ scan[c].pc \in {"list", "get"} => scan[c].listAs = scan[c].user
       /\ scan[c].pc = "get" => scan[c].getAs = scan[c].user
       /\ scan[c].pc \in {"parse", "save"} =>
            scan[c].getAs = scan[c].user /\ scan[c].emails = Mailbox[scan[c].user]
  /\ OwnEmailsStored

\* The rows whose mark-used update has completed.
Used == { d \in DOMAIN deals : ~deals[d].active }

\* No send that starts in this step names a row that is used already.
NoSendNamesUsed ==
  \A s \in SweepIds :
    sweep[s].pc # "send" /\ sweep'[s].pc = "send" => sweep'[s].matched \cap Used = {}

\* No row that is used already is marked notified in this step.
NoUsedMarkedNotified ==
  \A d \in Used : ~deals[d].notified => ~deals'[d].notified

\* C22: while markDealAsUsed and sweeps interleave, a deal whose mark-used
\* update has completed is named in no notification whose send starts
\* afterwards, and is not marked notified afterwards.
C22_UsedDealLeftAlone == [][NoSendNamesUsed /\ NoUsedMarkedNotified]_vars

\* The calls of a sweep that settle without an error: the listing of the
\* users, and the query, the send and the update for user u.
ListOk(s) == Invoke(s) /\ sweep'[s].err = "none"
QueryOk(s, u) == SweepQuery(s) /\ sweep[s].users[sweep[s].idx] = u /\ sweep'[s].err = "none"
SendOk(s, u) == SweepSend(s) /\ sweep[s].users[sweep[s].idx] = u /\ sweep'[s].err = "none"
UpdateOk(s, u) ==
  SweepUpdate(s) /\ sweep[s].users[sweep[s].idx] = u /\ sweep'[s].updErr = sweep[s].updErr

\* The calls for user u succeed again and again when they are made again
\* and again.
CallsSucceedFor(u) ==
  \A s \in SweepIds :
    /\ SF_vars(ListOk(s))
    /\ SF_vars(QueryOk(s, u))
    /\ SF_vars(SendOk(s, u))
    /\ SF_vars(UpdateOk(s, u))

\* Row d is a deal of u, whose preference is enabled, that is active,
\* unnotified and within the horizon.
Pending(u, d) ==
  /\ d \in DOMAIN deals
  /\ deals[d].user = u
  /\ prefs[u] = "true"
  /\ deals[d].active
  /\ ~deals[d].notified
  /\ deals[d].expiry # NoDate
  /\ deals[d].expiry <= now + HorizonDays

\* Row d has been marked notified, or used.
Settled(d) == d \in DOMAIN deals /\ (deals[d].notified \/ ~deals[d].active)

\* C23: with sweeps invoked one after another, if the calls for user U
\* succeed again and again, every deal of U that is pending is in the end
\* marked notified (after the mail naming it is sent) unless it is marked
\* used, whatever happens to the calls for the other users.
C23_PendingDealNotified ==
  \A u \in Users :
    CallsSucceedFor(u) =>
      \A d \in 1..MaxDeals :
        Pending(u, d) ~> Settled(d)

====
